---- MODULE Spec2Model ----
(***************************************************************************)
(* dumptruckrss: the query engine (src/query), the feed filter and the     *)
(* downloader (src/feed.rs), the destination paths (src/utils.rs) and the  *)
(* retry loop of the download command (src/main.rs).  A text is a sequence *)
(* of one-character strings.  An Option<T> is a sequence of length at most *)
(* one: None is <<>>, Some(x) is <<x>>.  Results are records with a tag    *)
(* field ("Ok", "Err" or "Panic").                                         *)
(***************************************************************************)
EXTENDS Integers, Sequences, FiniteSets, TLC

VARIABLES
    input,               \* the query string handed to Query::new
    full_download_list,  \* Feed.full_download_list, the master list
    pc,                  \* where main is: "args" (before the feed is read),
                         \* "start" (feed read), "done" (list built), ...
    result,              \* what Query::new returned
    numbers,             \* parse_set's local vector before the merge loop
    query_ops,           \* the compiled predicates handed to build_list_from_query
    download_list,       \* the candidate list (places of the master list)
    setA, setB,          \* two Set<u64> values under comparison
    eqAB, eqBA,          \* the results of setA == setB and setB == setA
    title, mime_type,    \* the arguments of one call of create_file_path
    new_file,            \* what that call returned
    config,              \* DumpConfig: output, n_downloads, timeout
    files,               \* the paths at which a file exists on disk
    tasks,               \* download_items: the future of each candidate
    pulled,              \* candidates for_each_concurrent took off the stream
    blocked,             \* the candidate whose std::thread::sleep holds the
                         \* thread that polls every future, 0 if none
    failed_downs,        \* download_items: the failure list
    completed,           \* items (places) whose transfer returned Ok in this pass
    requests,            \* ranged GETs sent for the current chunk, per candidate
    loops,               \* main: passes of the retry loop so far
    passes,              \* calls of download_items main has made
    cleared,             \* a pass has returned an empty failure list
    report,              \* what main printed when the loop ended
    faults_left,         \* failures the server and the disk may still cause
                         \* (an empty enclosure and a 200 to a ranged GET
                         \* count as such), negative if there is no bound
    rss_feed,            \* main: the feed is given with --url or with --file
    feed_fetched,        \* main: reqwest::get(rss_feed) has been sent
    iter_args,           \* the arguments of one call of PartialRangeIter::new
    range_iter,          \* what that call returned, advanced by each next()
    yielded              \* the ranges next() has returned so far

queryVars == <<input, result, numbers, query_ops>>

setVars == <<setA, setB, eqAB, eqBA>>

pathVars == <<title, mime_type, new_file>>

passVars == <<tasks, pulled, blocked, failed_downs, completed, requests>>

loopVars == <<loops, passes, cleared, report>>

feedVars == <<rss_feed, feed_fetched>>

iterVars == <<iter_args, range_iter, yielded>>

vars == <<queryVars, full_download_list, pc, download_list, setVars, pathVars,
          config, files, passVars, loopVars, faults_left, feedVars, iterVars>>

----------------------------------------------------------------------------
(* Bounds *)

MaxVal == 3        \* set elements range over 0..MaxVal
MaxLen == 3        \* number of elements of a generated set query
MaxNum == 11       \* bounds of a generated bracketed range are in 0..MaxNum
MaxText == 5       \* length of a free text after "number:"
MaxItems == 4      \* items of the feed's master list
MaxLatest == 5     \* N of a generated latest:N
MaxEqVal == 2      \* elements of two compared sets range over 0..MaxEqVal
MaxEqLen == 2      \* number of elements each compared set is parsed from
MaxTitle == 3      \* length of an item title handed to create_file_path
MaxQueries == 2    \* predicates handed to build_list_from_query
MaxCands == 2      \* items of the feed of a download run
MaxChunks == 2     \* chunks of an enclosure
MaxN == 2          \* n_downloads ranges over 0..MaxN
MaxFaults == 2     \* failures of the server and the disk in a run of several items
MaxArg == 2        \* length of the text after "number:" in a run of main from its start
MaxLength == 6     \* small lengths handed to PartialRangeIter::new
MaxBuffer == 3     \* small buffer sizes handed to PartialRangeIter::new

----------------------------------------------------------------------------
(* Option<T> *)

None == <<>>
Some(x) == <<x>>
IsSome(o) == Len(o) = 1
IsNone(o) == Len(o) = 0
Unwrap(o) == o[1]

----------------------------------------------------------------------------
(* Text primitives of the Rust standard library, as the parser uses them *)

RANGE_DELIMITER == ":"

Digits == <<"0", "1", "2", "3", "4", "5", "6", "7", "8", "9">>

IsDigit(c) == \E d \in 1..10 : Digits[d] = c

DigitVal(c) == (CHOOSE d \in 1..10 : Digits[d] = c) - 1

IsWhitespace(c) == c = " "

StartsWith(s, c) == Len(s) > 0 /\ s[1] = c

EndsWith(s, c) == Len(s) > 0 /\ s[Len(s)] = c

Contains(s, c) == \E i \in 1..Len(s) : s[i] = c

\* str::starts_with(&str): p is a prefix of s
HasPrefix(s, p) == Len(s) >= Len(p) /\ SubSeq(s, 1, Len(p)) = p

\* &s[n..]
SliceFrom(s, n) == SubSeq(s, n + 1, Len(s))

RECURSIVE TrimStartMatches(_, _)
TrimStartMatches(s, c) ==
    IF StartsWith(s, c) THEN TrimStartMatches(Tail(s), c) ELSE s

RECURSIVE TrimEndMatches(_, _)
TrimEndMatches(s, c) ==
    IF EndsWith(s, c) THEN TrimEndMatches(SubSeq(s, 1, Len(s) - 1), c) ELSE s

RECURSIVE TrimStart(_)
TrimStart(s) ==
    IF Len(s) > 0 /\ IsWhitespace(s[1]) THEN TrimStart(Tail(s)) ELSE s

RECURSIVE TrimEnd(_)
TrimEnd(s) ==
    IF Len(s) > 0 /\ IsWhitespace(s[Len(s)])
    THEN TrimEnd(SubSeq(s, 1, Len(s) - 1)) ELSE s

Trim(s) == TrimEnd(TrimStart(s))

\* str::split(char): the pieces between the delimiters, at least one piece
RECURSIVE Split(_, _)
Split(s, c) ==
    IF ~Contains(s, c) THEN <<s>>
    ELSE LET i == CHOOSE k \in 1..Len(s) :
                      s[k] = c /\ \A m \in 1..(k - 1) : s[m] # c
         IN  <<SubSeq(s, 1, i - 1)>> \o Split(SubSeq(s, i + 1, Len(s)), c)

\* iterator.take(1).collect::<String>() after skipping k pieces
TakeOneAfter(pieces, k) == IF Len(pieces) > k THEN pieces[k + 1] ELSE <<>>

RECURSIVE DigitsValue(_)
DigitsValue(s) ==
    IF s = <<>> THEN 0
    ELSE DigitsValue(SubSeq(s, 1, Len(s) - 1)) * 10 + DigitVal(s[Len(s)])

\* str::parse::<u64>(): an optional '+', then decimal digits only.  Texts of
\* the model have fewer than 10 digits, so the overflow error cannot occur.
ParseU64(s) ==
    IF s = <<>> THEN [ok |-> FALSE, val |-> 0, kind |-> "Empty"]
    ELSE LET body == IF s[1] = "+" THEN Tail(s) ELSE s
         IN  IF body = <<>> \/ \E i \in 1..Len(body) : ~IsDigit(body[i])
             THEN [ok |-> FALSE, val |-> 0, kind |-> "InvalidDigit"]
             ELSE [ok |-> TRUE, val |-> DigitsValue(body), kind |-> "None"]

\* format!("{}", n) of an unsigned integer
RECURSIVE FormatU64(_)
FormatU64(n) ==
    IF n < 10 THEN <<Digits[n + 1]>>
    ELSE FormatU64(n \div 10) \o <<Digits[(n % 10) + 1]>>

----------------------------------------------------------------------------
(* Results and errors *)

Ok(v) == [tag |-> "Ok", val |-> v]
Err(e) == [tag |-> "Err", err |-> e]
IsOk(r) == r.tag = "Ok"
IsErr(r) == r.tag = "Err"

\* ParserError<T>; the String-carrying variants keep the offending text
ErrText(kind, text) == [kind |-> kind, text |-> text, start |-> 0, end |-> 0]
ErrBounds(kind, s, e) == [kind |-> kind, text |-> <<>>, start |-> s, end |-> e]
ErrPlain(kind) == [kind |-> kind, text |-> <<>>, start |-> 0, end |-> 0]

Range(s, e) == [start |-> s, end |-> e]
RangeOf(r) == [kind |-> "Range", range |-> r, contents |-> {}]
SetOf(c) == [kind |-> "Set", range |-> Range(0, None), contents |-> c]

----------------------------------------------------------------------------
(* Parser<u64> for RangeOrSet<u64> *)

\* A bug: only the missing closing bracket is noticed
UnfinishedRangeOpenOnly(inp) == StartsWith(inp, "[") /\ ~EndsWith(inp, "]")

\* "Check if the range is properly terminated or started"
UnfinishedRange(inp) ==
    (StartsWith(inp, "[") /\ ~EndsWith(inp, "]"))
    \/ (~StartsWith(inp, "[") /\ EndsWith(inp, "]"))

\* A bug: an end equal to the start is taken for a greater one
CmpEqualIsGreater(number, start) ==
    IF number >= start THEN "Greater" ELSE "Less"

\* number.cmp(&start)
Cmp(number, start) ==
    IF number > start THEN "Greater"
    ELSE IF number < start THEN "Less"
    ELSE "Equal"

\* parse_range: a scalar "a" or a bracketed range "[a:b]"
ParseRangeU64(inp) ==
    IF UnfinishedRange(inp)
    THEN Err(ErrText("Unfinished", inp))
    ELSE
    LET range == StartsWith(inp, "[") /\ EndsWith(inp, "]")
        pieces == Split(inp, RANGE_DELIMITER)
        first == Trim(TrimStartMatches(TakeOneAfter(pieces, 0), "["))
        second == Trim(TrimEndMatches(TakeOneAfter(pieces, 1), "]"))
        startP == IF range THEN ParseU64(first) ELSE ParseU64(Trim(inp))
        endP == ParseU64(second)
    IN  IF range /\ Contains(first, "]")
        THEN Err(ErrText("MissingRangeDelimiter", inp))
        ELSE IF range /\ first = <<>>
        THEN Err(ErrText("MissingStart", inp))
        ELSE IF ~startP.ok
        THEN Err(ErrPlain("ParseInt"))
        ELSE IF ~range
        THEN Ok(RangeOf(Range(startP.val, None)))
        ELSE IF second = <<>>
        THEN Err(ErrText("MissingEnd", inp))
        ELSE IF ~endP.ok
        THEN Err(ErrPlain("ParseInt"))
        ELSE IF Cmp(endP.val, startP.val) = "Greater"
        THEN Ok(RangeOf(Range(startP.val, Some(endP.val))))
        ELSE IF Cmp(endP.val, startP.val) = "Less"
        THEN Err(ErrBounds("EndLessThanStart", startP.val, endP.val))
        ELSE Err(ErrBounds("EndEqualToStart", startP.val, endP.val))

\* The five shapes of a pair of ranges, as the merge loop tests them
End(r) == Unwrap(r.end)

Range2ContainsRange1(r1, r2) ==
    r1.start >= r2.start /\ End(r1) <= End(r2)

Range2PartiallyContainsRange1(r1, r2) ==
    r1.start < r2.start /\ End(r1) >= r2.start /\ End(r1) <= End(r2)

Range1ContainsRange2(r1, r2) ==
    r1.start < r2.start /\ End(r1) > End(r2)

\* A bug: ranges that only touch (range1.start = range2.end) are left out
Range1PartiallyContainsRange2Strict(r1, r2) ==
    r1.start >= r2.start /\ r1.start < End(r2) /\ End(r1) > End(r2)

Range1PartiallyContainsRange2(r1, r2) ==
    r1.start >= r2.start /\ r1.start <= End(r2) /\ End(r1) > End(r2)

RangesDontOverlap(r1, r2) ==
    End(r1) < r2.start \/ End(r2) < r1.start

\* The branch the body of the inner loop takes for the pair (range1, range2)
PairBranch(r1, r2) ==
    IF r1 = r2 THEN "equal"
    ELSE IF IsSome(r1.end) /\ IsSome(r2.end)
    THEN IF Range2ContainsRange1(r1, r2) THEN "range2_contains_range1"
         ELSE IF Range2PartiallyContainsRange1(r1, r2)
         THEN "range2_partially_contains_range1"
         ELSE IF Range1ContainsRange2(r1, r2) THEN "range1_contains_range2"
         ELSE IF Range1PartiallyContainsRange2(r1, r2)
         THEN "range1_partially_contains_range2"
         ELSE IF RangesDontOverlap(r1, r2) THEN "dont_overlap"
         ELSE "unimplemented"
    ELSE IF IsSome(r1.end) /\ IsNone(r2.end)
            /\ r2.start >= r1.start /\ r2.start <= End(r1)
    THEN "scalar2_in_range1"
    ELSE IF IsNone(r1.end) /\ IsSome(r2.end)
            /\ r1.start >= r2.start /\ r1.start <= End(r2)
    THEN "scalar1_in_range2"
    ELSE "nothing"

\* What one pair adds to eviction_ids and update_ids
PairEvictions(nums, ri1, ri2) ==
    LET b == PairBranch(nums[ri1], nums[ri2])
    IN  IF b \in {"range2_contains_range1", "range2_partially_contains_range1",
                  "scalar1_in_range2"}
        THEN {ri1}
        ELSE IF b \in {"range1_contains_range2",
                       "range1_partially_contains_range2", "scalar2_in_range1"}
        THEN {ri2}
        ELSE {}

PairUpdates(nums, ri1, ri2) ==
    LET b == PairBranch(nums[ri1], nums[ri2])
    IN  IF b = "range2_partially_contains_range1"
        THEN <<[id |-> ri2, new_start |-> nums[ri1].start]>>
        ELSE IF b = "range1_partially_contains_range2"
        THEN <<[id |-> ri1, new_start |-> nums[ri2].start]>>
        ELSE <<>>

\* The two nested loops over ri1 < ri2, in the order the code visits them
RECURSIVE MergeLoop(_, _, _, _)
MergeLoop(nums, ri1, ri2, acc) ==
    IF ri1 > Len(nums) THEN acc
    ELSE IF ri2 > Len(nums) THEN MergeLoop(nums, ri1 + 1, ri1 + 2, acc)
    ELSE MergeLoop(nums, ri1, ri2 + 1,
            [eviction_ids |-> acc.eviction_ids \cup PairEvictions(nums, ri1, ri2),
             update_ids |-> acc.update_ids \o PairUpdates(nums, ri1, ri2),
             panicked |-> acc.panicked
                          \/ PairBranch(nums[ri1], nums[ri2]) = "unimplemented"])

\* for (update_id, new_start) in update_ids { numbers[update_id].start = .. }
RECURSIVE ApplyUpdates(_, _)
ApplyUpdates(nums, ups) ==
    IF ups = <<>> THEN nums
    ELSE ApplyUpdates(
            [nums EXCEPT ![Head(ups).id] = Range(Head(ups).new_start, @.end)],
            Tail(ups))

\* Vec::remove(index)
RemoveAt(s, k) == SubSeq(s, 1, k - 1) \o SubSeq(s, k + 1, Len(s))

\* eviction_ids sorted and reversed, then removed one by one
RECURSIVE ApplyEvictions(_, _)
ApplyEvictions(nums, ids) ==
    IF ids = {} THEN nums
    ELSE LET top == CHOOSE i \in ids : \A k \in ids : k <= i
         IN  ApplyEvictions(RemoveAt(nums, top), ids \ {top})

\* The merge of parse_set ("Optimize ranges and scalars where possible")
MergeNumbers(nums) ==
    LET acc == MergeLoop(nums, 1, 2,
                   [eviction_ids |-> {}, update_ids |-> <<>>, panicked |-> FALSE])
        kept == ApplyEvictions(ApplyUpdates(nums, acc.update_ids),
                               acc.eviction_ids)
    IN  IF acc.panicked THEN [tag |-> "Panic", val |-> SetOf({})]
        ELSE Ok(SetOf({kept[i] : i \in 1..Len(kept)}))

\* The elements of a set text: trimmed pieces between commas
SetElements(trimmed) ==
    LET pieces == Split(trimmed, ",")
    IN  [i \in 1..Len(pieces) |-> Trim(pieces[i])]

\* The vector `numbers` parse_set builds before its merge loop (empty when
\* parse_set returns early)
ParsedNumbers(inp) ==
    LET trimmed == TrimStartMatches(TrimEndMatches(inp, "}"), "{")
        elems == SetElements(trimmed)
        parsed == [i \in 1..Len(elems) |-> ParseRangeU64(elems[i])]
    IN  IF Contains(trimmed, "{") \/ Contains(trimmed, "}") THEN <<>>
        ELSE IF \E i \in 1..Len(elems) : elems[i] = <<>> THEN <<>>
        ELSE IF \E i \in 1..Len(parsed) : IsErr(parsed[i]) THEN <<>>
        ELSE [i \in 1..Len(parsed) |-> parsed[i].val.range]

\* parse_set
ParseSetU64(inp) ==
    LET trimmed == TrimStartMatches(TrimEndMatches(inp, "}"), "{")
        elems == SetElements(trimmed)
        parsed == [i \in 1..Len(elems) |-> ParseRangeU64(elems[i])]
    IN  IF Contains(trimmed, "{") \/ Contains(trimmed, "}")
        THEN Err(ErrText("Recursion", inp))
        ELSE IF \E i \in 1..Len(elems) : elems[i] = <<>>
        THEN Err(ErrText("EmptySetElement", inp))
        ELSE IF \E i \in 1..Len(parsed) : IsErr(parsed[i])
        THEN parsed[CHOOSE i \in 1..Len(parsed) :
                        IsErr(parsed[i])
                        /\ \A k \in 1..(i - 1) : ~IsErr(parsed[k])]
        ELSE MergeNumbers(ParsedNumbers(inp))

\* Parser::parse: trim, then dispatch on the braces
IsSetText(inp) == StartsWith(inp, "{") /\ EndsWith(inp, "}")

ParseU64RangeOrSet(text) ==
    LET inp == Trim(text)
    IN  IF inp = <<>> THEN Err(ErrPlain("EmptyInput"))
        ELSE IF (StartsWith(inp, "{") /\ ~EndsWith(inp, "}"))
                \/ (~StartsWith(inp, "{") /\ EndsWith(inp, "}"))
        THEN Err(ErrText("Unfinished", inp))
        ELSE IF ~IsSetText(inp) THEN ParseRangeU64(inp)
        ELSE ParseSetU64(inp)

----------------------------------------------------------------------------
(* Parser<String> for RangeOrSet<String> *)

ParseRangeString(inp) == Ok(RangeOf(Range(inp, None)))

ParseSetString(inp) ==
    LET trimmed == TrimStartMatches(TrimEndMatches(inp, "}"), "{")
        elems == SetElements(trimmed)
    IN  IF Contains(trimmed, "{") \/ Contains(trimmed, "}")
        THEN Err(ErrText("Recursion", inp))
        ELSE IF \E i \in 1..Len(elems) : elems[i] = <<>>
        THEN Err(ErrText("EmptySetElement", inp))
        ELSE Ok([kind |-> "Set", range |-> Range(<<>>, None),
                 contents |-> {Range(elems[i], None) : i \in 1..Len(elems)}])

ParseStringRangeOrSet(text) ==
    LET inp == Trim(text)
    IN  IF inp = <<>> THEN Err(ErrPlain("EmptyInput"))
        ELSE IF (StartsWith(inp, "{") /\ ~EndsWith(inp, "}"))
                \/ (~StartsWith(inp, "{") /\ EndsWith(inp, "}"))
        THEN Err(ErrText("Unfinished", inp))
        ELSE IF ~IsSetText(inp) THEN ParseRangeString(inp)
        ELSE ParseSetString(inp)

----------------------------------------------------------------------------
(* impl PartialEq for Set<T> *)

\* self.contents.difference(&other.contents) is empty
SetEq(self, other) == (self \ other) = {}

----------------------------------------------------------------------------
(* QueryOperationOptions and Query *)

NumberPrefix == <<"n", "u", "m", "b", "e", "r", ":">>
TitlePrefix == <<"t", "i", "t", "l", "e", ":">>
DescriptionPrefix == <<"d", "e", "s", "c", "r", "i", "p", "t", "i", "o", "n", ":">>
NotExistsText == <<"n", "o", "t", "e", "x", "i", "s", "t", "s">>
LatestPrefix == <<"l", "a", "t", "e", "s", "t">>

\* A QueryError::Number / QueryError::Str wrapping a ParserError
QueryErr(variant, r) == Err([variant |-> variant, inner |-> r.err])
InvalidQueryOption(options) ==
    Err([variant |-> "InvalidQueryOption", inner |-> ErrText("", options)])

Option(kind, ros) == [kind |-> kind, ros |-> ros]

\* The latest branch of try_from
LatestOption(options) ==
    LET maybe_end_str == Trim(SliceFrom(options, 6))
        new_maybe_end_str == Trim(SliceFrom(maybe_end_str, 1))
        parsed == ParseU64(new_maybe_end_str)
    IN  IF maybe_end_str = <<>>
        THEN Ok(Option("Number", RangeOf(Range(0, None))))
        ELSE IF Contains(maybe_end_str, ":")
        THEN IF new_maybe_end_str # <<>>
             THEN IF parsed.ok
                  THEN Ok(Option("Number", RangeOf(Range(0, Some(parsed.val)))))
                  ELSE Err([variant |-> "Number", inner |-> ErrPlain("ParseInt")])
             ELSE Err([variant |-> "Number", inner |-> ErrPlain("EmptyInput")])
        ELSE InvalidQueryOption(options)

\* TryFrom<&str> for QueryOperationOptions (every option but date:, whose
\* element parser belongs to the chrono library)
TryFromOptions(options) ==
    IF HasPrefix(options, NumberPrefix)
    THEN LET r == ParseU64RangeOrSet(SliceFrom(options, 7))
         IN  IF IsErr(r) THEN QueryErr("Number", r)
             ELSE IF IsOk(r) THEN Ok(Option("Number", r.val)) ELSE r
    ELSE IF HasPrefix(options, TitlePrefix)
    THEN LET r == ParseStringRangeOrSet(SliceFrom(options, 6))
         IN  IF IsErr(r) THEN QueryErr("Str", r) ELSE Ok(Option("Title", r.val))
    ELSE IF HasPrefix(options, DescriptionPrefix)
    THEN LET r == ParseStringRangeOrSet(SliceFrom(options, 12))
         IN  IF IsErr(r) THEN QueryErr("Str", r)
             ELSE Ok(Option("Description", r.val))
    ELSE IF options = NotExistsText
    THEN Ok(Option("NotExists", RangeOf(Range(0, None))))
    ELSE IF HasPrefix(options, LatestPrefix) THEN LatestOption(options)
    ELSE InvalidQueryOption(options)

\* Query::new
QueryNew(options) == TryFromOptions(options)

\* The vector parse_set is merging when Query::new runs on a number set
QueryNumbers(options) ==
    IF HasPrefix(options, NumberPrefix)
       /\ IsSetText(Trim(SliceFrom(options, 7)))
    THEN ParsedNumbers(Trim(SliceFrom(options, 7)))
    ELSE <<>>

----------------------------------------------------------------------------
(* AudioType (src/ext.rs) and create_file_path (src/utils.rs) *)

\* AudioType::get_type_from_mime; "Panic" stands for panic!("Undetected
\* Audio type")
GetTypeFromMime(mime) ==
    CASE mime = "audio/mpeg" -> "Mpeg"
      [] mime = "audio/aac" -> "Aac"
      [] mime = "audio/ogg" -> "Ogg"
      [] mime = "audio/mp4" -> "Mp4"
      [] mime = "audio/x-m4a" -> "M4a"
      [] OTHER -> "Panic"

GetExtensionFromType(ty) ==
    CASE ty = "Mpeg" -> <<"m", "p", "3">>
      [] ty = "Aac" -> <<"a", "a", "c">>
      [] ty = "Ogg" -> <<"o", "g", "g">>
      [] ty = "Mp4" -> <<"m", "p", "4">>
      [] ty = "M4a" -> <<"m", "4", "a">>

MimeIsRecognized(mime) == GetTypeFromMime(mime) # "Panic"

\* AudioType::get_extension_from_mime, for a recognized MIME type
GetExtensionFromMime(mime) == GetExtensionFromType(GetTypeFromMime(mime))

\* str::replace("/", "-")
ReplaceSlash(s) == [i \in 1..Len(s) |-> IF s[i] = "/" THEN "-" ELSE s[i]]

\* PathBuf::push: an absolute component replaces the path, any other is
\* appended after a separator
PathPush(path, component) ==
    IF StartsWith(component, "/") THEN component
    ELSE IF path = <<>> \/ EndsWith(path, "/") THEN path \o component
    ELSE path \o <<"/">> \o component

\* The path without the separator or the "." component that ends it, which
\* Path::components skips; the component pushed last holds no '/', so there
\* is at most one
StripTrailing(path) ==
    IF Len(path) > 2 /\ SubSeq(path, Len(path) - 1, Len(path)) = <<"/", ".">>
    THEN SubSeq(path, 1, Len(path) - 2)
    ELSE IF Len(path) > 1 /\ EndsWith(path, "/")
    THEN SubSeq(path, 1, Len(path) - 1)
    ELSE path

\* Where the last component of a stripped path begins
LastComponentStart(p) ==
    IF Contains(p, "/")
    THEN 1 + (CHOOSE k \in 1..Len(p) :
                 p[k] = "/" /\ \A m \in (k + 1)..Len(p) : p[m] # "/")
    ELSE 1

\* Path::file_name: the last component if it is a normal one
FileName(path) ==
    LET p == StripTrailing(path)
        name == SubSeq(p, LastComponentStart(p), Len(p))
    IN  IF name = <<>> \/ name = <<".">> \/ name = <<".", ".">>
        THEN None ELSE Some(name)

\* Path::file_stem of a file name: what stands before its last '.', the
\* whole name if it has no '.' or only a leading one
FileStem(name) ==
    IF ~Contains(name, ".") THEN name
    ELSE LET k == CHOOSE d \in 1..Len(name) :
                     name[d] = "." /\ \A m \in (d + 1)..Len(name) : name[m] # "."
         IN  IF k = 1 THEN name ELSE SubSeq(name, 1, k - 1)

\* PathBuf::set_extension: the path is cut right after the stem of its file
\* name and "." and the extension are appended; a path without a file name
\* is left as it is
SetExtension(path, extension) ==
    IF IsNone(FileName(path)) THEN path
    ELSE LET p == StripTrailing(path)
             stem == FileStem(Unwrap(FileName(path)))
             cut == SubSeq(p, 1, LastComponentStart(p) - 1) \o stem
         IN  IF extension = <<>> THEN cut ELSE cut \o <<".">> \o extension

\* create_file_path, for a recognized MIME type
CreateFilePath(file, mime, name) ==
    SetExtension(PathPush(file, ReplaceSlash(name)), GetExtensionFromMime(mime))

\* title().unwrap_or("Boilerplate Episode Title")
BoilerplateTitle ==
    <<"B", "o", "i", "l", "e", "r", "p", "l", "a", "t", "e", " ",
      "E", "p", "i", "s", "o", "d", "e", " ", "T", "i", "t", "l", "e">>

\* The name and the destination path download_items computes for an item
NameOf(item) == IF IsSome(item.title) THEN Unwrap(item.title) ELSE BoilerplateTitle

DestinationOf(item, output) == CreateFilePath(output, item.mime_type, NameOf(item))

----------------------------------------------------------------------------
(* build_func: the predicate of a compiled option *)

\* A bug: the end of a range is excluded
RangeMatchesExclusive(range, n) ==
    IF IsSome(range.end) THEN n >= range.start /\ n < End(range)
    ELSE n = range.start

RangeMatches(range, n) ==
    IF IsSome(range.end) THEN n >= range.start /\ n <= End(range)
    ELSE n = range.start

NumberMatches(ros, n) ==
    IF ros.kind = "Range" THEN RangeMatches(ros.range, n)
    ELSE \E range \in ros.contents : RangeMatches(range, n)

\* str::contains(&str)
ContainsText(s, sub) ==
    \E i \in 1..(Len(s) - Len(sub) + 1) : SubSeq(s, i, i + Len(sub) - 1) = sub

TextMatches(ros, field) ==
    IF ros.kind = "Range" THEN ContainsText(field, ros.range.start)
    ELSE \E value \in ros.contents : ContainsText(field, value.start)

\* The unwrap() of a field the item lacks, or the panic! of an unrecognized
\* MIME type, in the closure build_func returns
EvalPanics(op, item) ==
    CASE op.kind = "Title" -> IsNone(item.title)
      [] op.kind = "Description" -> IsNone(item.description)
      [] op.kind = "NotExists" ->
            IsNone(item.title) \/ ~MimeIsRecognized(item.mime_type)
      [] OTHER -> FALSE

\* Path::exists
Exists(path) == path \in files

\* The closure build_func returns, applied to (item, ordinal, feed), when it
\* does not panic; the feed gives the output directory and the disk
EvalOp(op, item, n) ==
    CASE op.kind = "Number" -> NumberMatches(op.ros, n)
      [] op.kind = "Title" -> TextMatches(op.ros, Unwrap(item.title))
      [] op.kind = "Description" -> TextMatches(op.ros, Unwrap(item.description))
      [] op.kind = "NotExists" ->
            ~Exists(CreateFilePath(config.output, item.mime_type,
                                   Unwrap(item.title)))

----------------------------------------------------------------------------
(* Feed *)

\* A bug: the predicates are given the one-based place of the item
RECURSIVE FilterFromOneBased(_, _, _)
FilterFromOneBased(list, queries, i) ==
    IF i > Len(list) THEN <<>>
    ELSE (IF \A q \in 1..Len(queries) : EvalOp(queries[q], list[i], i)
          THEN <<i>> ELSE <<>>) \o FilterFromOneBased(list, queries, i + 1)

\* A Weak<rss::Item> of a candidate list is the 1-based place of the item in
\* full_download_list; the ordinal handed to the predicates is that place
\* minus one.
RECURSIVE FilterFrom(_, _, _)
FilterFrom(list, queries, i) ==
    IF i > Len(list) THEN <<>>
    ELSE (IF \A q \in 1..Len(queries) : EvalOp(queries[q], list[i], i - 1)
          THEN <<i>> ELSE <<>>) \o FilterFrom(list, queries, i + 1)

\* Feed::build_list_from_query
BuildListFromQuery(list, queries) == FilterFrom(list, queries, 1)

\* A predicate panics on an item: every predicate is run on every item
ListPanics(list, queries) ==
    \E i \in 1..Len(list), q \in 1..Len(queries) : EvalPanics(queries[q], list[i])

----------------------------------------------------------------------------
(* Query texts and feeds the runs start from *)

\* "T:xx" (scalar), "T:[xx:yy]" (range), "T:{xx,[zz:yy],ww}" (set)
FormatRange(r) ==
    IF IsSome(r.end)
    THEN <<"[">> \o FormatU64(r.start) \o <<RANGE_DELIMITER>>
         \o FormatU64(End(r)) \o <<"]">>
    ELSE FormatU64(r.start)

RECURSIVE JoinRanges(_)
JoinRanges(l) ==
    IF Len(l) = 1 THEN FormatRange(l[1])
    ELSE FormatRange(l[1]) \o <<",">> \o JoinRanges(Tail(l))

FormatSet(l) == <<"{">> \o JoinRanges(l) \o <<"}">>

\* Valid set elements over 0..n: scalars and ranges with end > start
Elems(n) ==
    {Range(s, None) : s \in 0..n}
    \cup {Range(p[1], Some(p[2])) : p \in {q \in (0..n) \X (0..n) : q[1] < q[2]}}

ElemLists(n, len) == UNION {[1..k -> Elems(n)] : k \in 1..len}

SetQueries == {NumberPrefix \o FormatSet(l) : l \in ElemLists(MaxVal, MaxLen)}

\* "[a:b]" and "a" for all a, b, whether or not a < b
BracketText(a, b) ==
    <<"[">> \o FormatU64(a) \o <<RANGE_DELIMITER>> \o FormatU64(b) \o <<"]">>

RangeQueries ==
    {NumberPrefix \o BracketText(p[1], p[2]) : p \in (0..MaxNum) \X (0..MaxNum)}
    \cup {NumberPrefix \o FormatU64(a) : a \in 0..MaxNum}

TextAlphabet == {"[", "]", ":", "{", "}", ",", " ", "1", "2"}

Texts(len) == UNION {[1..k -> TextAlphabet] : k \in 0..len}

TextQueries == {NumberPrefix \o t : t \in Texts(MaxText)}

LatestText(n) == LatestPrefix \o <<":">> \o FormatU64(n)

LatestQueries ==
    {LatestPrefix, LatestPrefix \o <<" ">>, LatestPrefix \o <<":">>,
     LatestPrefix \o <<"x">>, LatestPrefix \o <<":", "x">>}
    \cup {LatestText(n) : n \in 0..MaxLatest}
    \cup {LatestPrefix \o <<" ", ":", " ">> \o FormatU64(n) \o <<" ">> :
            n \in 0..MaxLatest}

\* An rss::Item: its title, its description and the MIME type of its
\* enclosure
Item(t, d, mime) == [title |-> t, description |-> d, mime_type |-> mime]

Items ==
    {Item(Some(<<"a">>), Some(<<"x">>), "audio/mpeg"),
     Item(Some(<<"b">>), Some(<<"x">>), "audio/mpeg")}

Feeds(len) == UNION {[1..k -> Items] : k \in 0..len}

\* A feed long enough for every ordinal a generated set element can name
LongFeed ==
    [i \in 1..(MaxVal + 2) |-> Item(Some(<<"a">>), Some(<<"x">>), "audio/mpeg")]

----------------------------------------------------------------------------
(* The program: main compiles the query and filters the feed with it *)

\* main: --timeout, default_value("300")
DefaultTimeout == 300

\* DumpConfig::new_output_is_dir
DumpConfig(output_path, n_downloads, timeout) ==
    [output |-> output_path, n_downloads |-> n_downloads, timeout |-> timeout]

OutputDir == <<"o">>

\* No call of create_file_path has been made
NoPath ==
    /\ title = <<>>
    /\ mime_type = ""
    /\ new_file = <<>>

\* The default configuration and an empty output directory
NoDisk ==
    /\ config = DumpConfig(OutputDir, 1, DefaultTimeout)
    /\ files = {}
    /\ faults_left = 0

\* No pass of download_items has begun
NoPass ==
    /\ tasks = <<>>
    /\ pulled = 0
    /\ blocked = 0
    /\ failed_downs = <<>>
    /\ completed = {}
    /\ requests = <<>>
    /\ loops = 0
    /\ passes = 0
    /\ cleared = FALSE
    /\ report = ""

\* The feed was read from a file
NoFetch ==
    /\ rss_feed = "file"
    /\ feed_fetched = FALSE

\* No call of PartialRangeIter::new has been made
NoIter ==
    /\ iter_args = <<>>
    /\ range_iter = <<>>
    /\ yielded = <<>>

\* Query::new has not been called
NoQuery ==
    /\ result = Err([variant |-> "", inner |-> ErrPlain("")])
    /\ numbers = <<>>
    /\ download_list = <<>>
    /\ eqAB = FALSE
    /\ eqBA = FALSE
    /\ NoPass

\* main has read the feed and is about to compile the query
InitCommon ==
    /\ pc = "start"
    /\ NoQuery
    /\ NoFetch
    /\ NoIter

InitSet ==
    /\ input \in SetQueries
    /\ full_download_list = LongFeed
    /\ setA = {} /\ setB = {}
    /\ NoPath /\ NoDisk
    /\ query_ops = <<>>
    /\ InitCommon

InitText ==
    /\ input \in TextQueries
    /\ full_download_list = LongFeed
    /\ setA = {} /\ setB = {}
    /\ NoPath /\ NoDisk
    /\ query_ops = <<>>
    /\ InitCommon

InitRange ==
    /\ input \in RangeQueries
    /\ full_download_list = LongFeed
    /\ setA = {} /\ setB = {}
    /\ NoPath /\ NoDisk
    /\ query_ops = <<>>
    /\ InitCommon

InitLatest ==
    /\ input \in LatestQueries
    /\ full_download_list \in Feeds(MaxItems)
    /\ setA = {} /\ setB = {}
    /\ NoPath /\ NoDisk
    /\ query_ops = <<>>
    /\ InitCommon

\* main: Query::new(query_str)?, build_query_op, build_list_from_query; a
\* predicate that panics ends the program
RunQuery ==
    /\ pc = "start"
    /\ result' = QueryNew(input)
    /\ IF IsOk(result') /\ ListPanics(full_download_list, <<result'.val>>)
       THEN /\ pc' = "panicked"
            /\ download_list' = <<>>
       ELSE /\ pc' = "done"
            /\ download_list' =
                  IF IsOk(result')
                  THEN BuildListFromQuery(full_download_list, <<result'.val>>)
                  ELSE <<>>
    /\ numbers' = QueryNumbers(input)
    /\ UNCHANGED <<input, query_ops, full_download_list, setVars, pathVars,
                   config, files, passVars, loopVars, faults_left, feedVars,
                   iterVars>>

NextQuery == RunQuery

SpecSet == InitSet /\ [][NextQuery]_vars
SpecText == InitText /\ [][NextQuery]_vars
SpecRange == InitRange /\ [][NextQuery]_vars
SpecLatest == InitLatest /\ [][NextQuery]_vars

----------------------------------------------------------------------------
(* Comparing two parsed sets *)

ParsedSets ==
    {MergeNumbers(l).val.contents : l \in ElemLists(MaxEqVal, MaxEqLen)}

InitEq ==
    /\ setA \in ParsedSets
    /\ setB \in ParsedSets
    /\ input = <<>>
    /\ full_download_list = <<>>
    /\ NoPath /\ NoDisk
    /\ query_ops = <<>>
    /\ InitCommon

\* assert_eq!(a, b) and assert_eq!(b, a)
CompareSets ==
    /\ pc = "start"
    /\ pc' = "done"
    /\ eqAB' = SetEq(setA, setB)
    /\ eqBA' = SetEq(setB, setA)
    /\ UNCHANGED <<queryVars, full_download_list, download_list, setA, setB,
                   pathVars, config, files, passVars, loopVars, faults_left,
                   feedVars, iterVars>>

NextEq == CompareSets

SpecEq == InitEq /\ [][NextEq]_vars

----------------------------------------------------------------------------
(* One call of create_file_path *)

TitleAlphabet == {"a", ".", "/"}

Titles == UNION {[1..k -> TitleAlphabet] : k \in 1..MaxTitle}

MimeTypes == {"audio/mpeg", "audio/aac", "audio/ogg", "audio/mp4", "audio/x-m4a"}

InitPath ==
    /\ title \in Titles
    /\ mime_type \in MimeTypes \cup {"text/html"}
    /\ new_file = <<>>
    /\ input = <<>>
    /\ full_download_list = <<>>
    /\ setA = {} /\ setB = {}
    /\ NoDisk
    /\ query_ops = <<>>
    /\ InitCommon

\* create_file_path(&config.output, mime_type, title)
CallCreateFilePath ==
    /\ pc = "start"
    /\ IF MimeIsRecognized(mime_type)
       THEN /\ pc' = "done"
            /\ new_file' = CreateFilePath(config.output, mime_type, title)
       ELSE /\ pc' = "panicked"
            /\ new_file' = new_file
    /\ UNCHANGED <<queryVars, full_download_list, download_list, setVars, title,
                   mime_type, config, files, passVars, loopVars, faults_left,
                   feedVars, iterVars>>

NextPath == CallCreateFilePath

SpecPath == InitPath /\ [][NextPath]_vars

----------------------------------------------------------------------------
(* One call of build_list_from_query with a list of compiled predicates *)

NotExistsOp == Option("NotExists", RangeOf(Range(0, None)))

\* What Query::new compiles "number:[0:1]", "number:1", "title:a" and
\* "notexists" to
FilterOps ==
    {Option("Number", RangeOf(Range(0, Some(1)))),
     Option("Number", RangeOf(Range(1, None))),
     Option("Title", RangeOf(Range(<<"a">>, None))),
     NotExistsOp}

\* The output directory is empty or holds the file of the item titled "a"
DiskStates ==
    {{}, {CreateFilePath(OutputDir, "audio/mpeg", <<"a">>)}}

InitFilter ==
    /\ query_ops \in UNION {[1..n -> FilterOps] : n \in 0..MaxQueries}
    /\ full_download_list \in Feeds(MaxItems)
    /\ files \in DiskStates
    /\ config = DumpConfig(OutputDir, 1, DefaultTimeout)
    /\ faults_left = 0
    /\ input = <<>>
    /\ setA = {} /\ setB = {}
    /\ NoPath
    /\ InitCommon

\* feed.build_list_from_query(&query_ops)
CallBuildList ==
    /\ pc = "start"
    /\ pc' = "done"
    /\ download_list' = BuildListFromQuery(full_download_list, query_ops)
    /\ UNCHANGED <<queryVars, full_download_list, setVars, pathVars, config,
                   files, passVars, loopVars, faults_left, feedVars, iterVars>>

NextFilter == CallBuildList

SpecFilter == InitFilter /\ [][NextFilter]_vars

----------------------------------------------------------------------------
(* The download command: Feed::download_items, download_and_store_item and  *)
(* the retry loop of main.  The futures of one pass are all polled by the   *)
(* thread that runs main, so they interleave at their .await points only,   *)
(* and a std::thread::sleep in one of them holds that thread.               *)

CHUNK_SIZE == 5 * 1024 * 1024

tries == 20

\* main: loops >= 10
MaxLoops == 10

StatusOK == 200

StatusPartialContent == 206

\* Statuses a server answers a ranged GET with when it does not serve it
BadStatuses == {404, 503}

\* Content-Length values: an empty enclosure, and one to MaxChunks chunks
Lengths == {0} \cup {(c - 1) * CHUNK_SIZE + 1 : c \in 1..MaxChunks}

\* What client.get(url).header(RANGE, range).send().await gives: an error, or
\* a response with a status
Responses ==
    {Err("network")}
    \cup {Ok(status) : status \in {StatusOK, StatusPartialContent} \cup BadStatuses}

\* A bug: every range has the size of the buffer
MinTakesBuffer(a, b) == a

Min(a, b) == IF a < b THEN a ELSE b

\* u64 arithmetic: lengths and offsets are kept in a word of 30 bits, which
\* holds CHUNK_SIZE and every length of a run; sums of two words stay within
\* the integers of the model checker.  A build with overflow checks panics
\* where a build without them wraps.
U64Modulus == 2 ^ 30

WrappingAdd(a, b) == (a + b) % U64Modulus

WrappingSub(a, b) == (a - b + U64Modulus) % U64Modulus

\* PartialRangeIter::new
PartialRangeIterNew(start, end, buffer_size) ==
    IF buffer_size = 0
    THEN Err("invalid buffer_size, give a value greater than zero.")
    ELSE Ok([start |-> start, end |-> end, buffer_size |-> buffer_size])

\* PartialRangeIter::next when a range is left (start <= end): the iterator
\* after the call, the range "bytes=from-to" and the second component of the
\* item, as a build without overflow checks computes them
PartialRangeIterNext(it) ==
    LET prev_start == it.start
        remaining == WrappingAdd(it.end - it.start, 1)
        start == WrappingAdd(it.start, Min(it.buffer_size, remaining))
        to == WrappingSub(start, 1)
    IN  [iter |-> [it EXCEPT !.start = start],
         from |-> prev_start, to |-> to, chunk |-> WrappingSub(to, prev_start)]

\* One of the additions and subtractions of that call overflows
PartialRangeIterNextOverflows(it) ==
    LET remaining == WrappingAdd(it.end - it.start, 1)
        start == WrappingAdd(it.start, Min(it.buffer_size, remaining))
    IN  \/ it.end - it.start + 1 >= U64Modulus
        \/ it.start + Min(it.buffer_size, remaining) >= U64Modulus
        \/ start < 1
        \/ WrappingSub(start, 1) < it.start

\* A bug: the next range is requested without the body in the file
AppendBodyDropsPart(body, part) == body

\* The bytes a response carries for the range from-to of an enclosure of the
\* given length: all of them with status 200, the range with 206
Body(status, from, to, length) ==
    IF status = StatusOK
    THEN [from |-> 0, to |-> length - 1]
    ELSE [from |-> from, to |-> Min(to, length - 1)]

\* tokio_io::copy appends the body to the file
AppendBody(body, part) ==
    IF part.to < part.from THEN body ELSE Append(body, part)

\* PartialRangeIter::next returns None
PartialRangeIterDone(it) == it.start > it.end

\* The future of a candidate for_each_concurrent has not taken yet
IdleTask ==
    [st |-> "waiting", new_file |-> <<>>, length |-> 0,
     iter |-> PartialRangeIterNew(0, 0, CHUNK_SIZE).val, from |-> 0, to |-> 0,
     retry_counter |-> 0, status |-> 0, announced_ms |-> 0, sleep_ms |-> 0,
     written |-> 0, body |-> <<>>]

Candidates == 1..Len(download_list)

\* The item a Weak<rss::Item> of the candidate list points to
ItemOf(k) == full_download_list[download_list[k]]

\* Candidates whose download_and_store_item has been called and has not
\* returned
Transferring ==
    {k \in Candidates : tasks[k].st \in {"probe", "create", "get", "backoff", "copy"}}

\* Futures for_each_concurrent holds: a future ends after the sleep that
\* follows a successful transfer
InFlight == {k \in Candidates : tasks[k].st \notin {"waiting", "ok", "failed"}}

\* for_each_concurrent(limit): a limit of 0 is no limit
HasRoom(limit, in_flight) == limit = 0 \/ in_flight < limit

\* A bug: the item fails one bad status early
RetriesExhaustedAtCap(retry_counter) == retry_counter >= tries

\* if retry_counter > tries
RetriesExhausted(retry_counter) == retry_counter > tries

\* A bug: an empty failure list does not end the loop
LoopEndsOnCapOnly(has_failed_downs, n) == n >= MaxLoops

\* if has_failed_downs || loops >= 10, where has_failed_downs is true when
\* the failure list is empty
LoopEnds(has_failed_downs, n) == has_failed_downs \/ n >= MaxLoops

\* The server or the disk may fail once more
CanFail == faults_left # 0

AfterFault == IF faults_left < 0 THEN faults_left ELSE faults_left - 1

\* failed_downs.lock().unwrap().push((epi.clone(), new_file, e))
PushFailure(k, e) ==
    Append(failed_downs, [item |-> download_list[k], path |-> tasks[k].new_file,
                          candidate |-> k, error |-> e])

\* An error of download_and_store_item; status is 0 unless the error is the
\* "Unexpected server response"
TransferError(kind, status) == [kind |-> kind, status |-> status]

\* What no step of the download command changes
fixedVars ==
    <<queryVars, full_download_list, setVars, pathVars, config, feedVars, iterVars>>

\* main: feed.download_items(&download_list) is called
BeginPass ==
    /\ pc \in {"done", "retry"}
    /\ IsOk(result)
    /\ pc' = "pass"
    /\ passes' = passes + 1
    /\ tasks' = [k \in Candidates |-> IdleTask]
    /\ requests' = [k \in Candidates |-> 0]
    /\ pulled' = 0
    /\ blocked' = 0
    /\ failed_downs' = <<>>
    /\ completed' = {}
    /\ UNCHANGED <<fixedVars, download_list, files, loops, cleared, report,
                   faults_left>>

\* for_each_concurrent takes the next candidate off the reversed list when it
\* has room: the closure computes name and new_file, and the first poll of
\* the future sends the HEAD request of get_content_length
StartItem ==
    /\ pc = "pass"
    /\ blocked = 0
    /\ pulled < Len(download_list)
    /\ HasRoom(config.n_downloads, Cardinality(InFlight))
    /\ LET k == Len(download_list) - pulled
       IN  IF MimeIsRecognized(ItemOf(k).mime_type)
           THEN /\ tasks' = [tasks EXCEPT ![k].st = "probe",
                                          ![k].new_file =
                                              DestinationOf(ItemOf(k), config.output)]
                /\ pulled' = pulled + 1
                /\ pc' = pc
           ELSE /\ pc' = "panicked"
                /\ UNCHANGED <<tasks, pulled>>
    /\ UNCHANGED <<fixedVars, download_list, files, blocked, failed_downs,
                   completed, requests, loopVars, faults_left>>

\* get_content_length(item).await.unwrap(): the length the server announces,
\* or a panic; then File::create is called
ProbeDone(k) ==
    /\ pc = "pass"
    /\ blocked = 0
    /\ tasks[k].st = "probe"
    /\ \E probe \in {Ok(length) : length \in Lengths} \cup {Err("probe")} :
          IF IsOk(probe)
          THEN /\ probe.val = 0 => CanFail
               /\ faults_left' = IF probe.val = 0 THEN AfterFault ELSE faults_left
               /\ tasks' = [tasks EXCEPT ![k].st = "create",
                                         ![k].length = probe.val]
               /\ pc' = pc
          ELSE /\ CanFail
               /\ faults_left' = AfterFault
               /\ pc' = "panicked"
               /\ tasks' = tasks
    /\ UNCHANGED <<fixedVars, download_list, files, pulled, blocked,
                   failed_downs, completed, requests, loopVars>>

\* File::create(new_file).await? creates or truncates the file; then
\* length - 1, the first range of PartialRangeIter and its first GET.  Where
\* the arithmetic overflows the build either panics or wraps.
FileCreated(k) ==
    /\ pc = "pass"
    /\ blocked = 0
    /\ tasks[k].st = "create"
    /\ \E created \in BOOLEAN :
          IF created
          THEN LET it == PartialRangeIterNew(
                             0, WrappingSub(tasks[k].length, 1), CHUNK_SIZE).val
                   next == PartialRangeIterNext(it)
                   overflows ==
                       tasks[k].length < 1 \/ PartialRangeIterNextOverflows(it)
               IN  /\ files' = files \cup {tasks[k].new_file}
                   /\ \E panics \in {FALSE, overflows} :
                         IF panics
                         THEN /\ pc' = "panicked"
                              /\ UNCHANGED <<tasks, requests>>
                         ELSE /\ pc' = pc
                              /\ tasks' = [tasks EXCEPT ![k].st = "get",
                                                        ![k].iter = next.iter,
                                                        ![k].from = next.from,
                                                        ![k].to = next.to,
                                                        ![k].retry_counter = 1]
                              /\ requests' = [requests EXCEPT ![k] = 1]
                   /\ UNCHANGED <<failed_downs, faults_left>>
          ELSE /\ CanFail
               /\ faults_left' = AfterFault
               /\ failed_downs' = PushFailure(k, TransferError("create", 0))
               /\ tasks' = [tasks EXCEPT ![k].st = "failed"]
               /\ UNCHANGED <<pc, files, requests>>
    /\ UNCHANGED <<fixedVars, download_list, pulled, blocked, completed,
                   loopVars>>

\* The answer to the ranged GET of the current chunk: the request fails, or
\* the status is not 200 or 206 (the message "Try k of 20. Retrying in ...ms"
\* is set, retry_counter += 1 and the thread sleeps),
\* or the body starts to be copied to the file
Response(k) ==
    /\ pc = "pass"
    /\ blocked = 0
    /\ tasks[k].st = "get"
    /\ \E response \in Responses :
          IF IsErr(response)
          THEN /\ CanFail
               /\ faults_left' = AfterFault
               /\ failed_downs' = PushFailure(k, TransferError("network", 0))
               /\ tasks' = [tasks EXCEPT ![k].st = "failed"]
               /\ blocked' = blocked
          ELSE IF response.val \notin {StatusOK, StatusPartialContent}
          THEN /\ CanFail
               /\ faults_left' = AfterFault
               /\ tasks' = [tasks EXCEPT
                               ![k].st = "backoff",
                               ![k].status = response.val,
                               ![k].announced_ms = tasks[k].retry_counter * 300,
                               ![k].retry_counter = tasks[k].retry_counter + 1,
                               ![k].sleep_ms = (tasks[k].retry_counter + 1) * 300]
               /\ blocked' = k
               /\ failed_downs' = failed_downs
          ELSE /\ response.val = StatusOK => CanFail
               /\ faults_left' =
                     IF response.val = StatusOK THEN AfterFault ELSE faults_left
               /\ tasks' = [tasks EXCEPT ![k].st = "copy", ![k].status = response.val]
               /\ UNCHANGED <<blocked, failed_downs>>
    /\ UNCHANGED <<fixedVars, pc, download_list, files, pulled, completed,
                   requests, loopVars>>

\* The sleep of a retry ends: the item fails if retry_counter > tries, else
\* the loop continues and the GET of the same range is sent again
EndBackoff(k) ==
    /\ pc = "pass"
    /\ blocked = k
    /\ tasks[k].st = "backoff"
    /\ blocked' = 0
    /\ IF RetriesExhausted(tasks[k].retry_counter)
       THEN /\ failed_downs' =
                  PushFailure(k, TransferError("status", tasks[k].status))
            /\ tasks' = [tasks EXCEPT ![k].st = "failed"]
            /\ requests' = requests
       ELSE /\ tasks' = [tasks EXCEPT ![k].st = "get"]
            /\ requests' = [requests EXCEPT ![k] = requests[k] + 1]
            /\ failed_downs' = failed_downs
    /\ UNCHANGED <<fixedVars, pc, download_list, files, pulled, completed,
                   loopVars, faults_left>>

\* tokio_io::copy(...).await? has ended: a write error fails the item; else
\* the body is in the file and the next range is requested with
\* retry_counter = 1, or the transfer returns Ok and download_items sleeps
\* 300 ms.  A loop over an iterator that never ends is followed for MaxChunks
\* ranges.
CopyDone(k) ==
    /\ pc = "pass"
    /\ blocked = 0
    /\ tasks[k].st = "copy"
    /\ \E copied \in BOOLEAN :
          IF ~copied
          THEN /\ CanFail
               /\ faults_left' = AfterFault
               /\ failed_downs' = PushFailure(k, TransferError("write", 0))
               /\ tasks' = [tasks EXCEPT ![k].st = "failed"]
               /\ UNCHANGED <<pc, requests, completed, blocked>>
          ELSE LET body == AppendBody(tasks[k].body,
                                      Body(tasks[k].status, tasks[k].from,
                                           tasks[k].to, tasks[k].length))
                   next == PartialRangeIterNext(tasks[k].iter)
               IN  IF PartialRangeIterDone(tasks[k].iter)
                   THEN /\ tasks' = [tasks EXCEPT ![k].st = "cooldown",
                                                  ![k].written = tasks[k].written + 1,
                                                  ![k].body = body,
                                                  ![k].sleep_ms = 300]
                        /\ completed' = completed \cup {download_list[k]}
                        /\ blocked' = k
                        /\ UNCHANGED <<pc, requests, failed_downs, faults_left>>
                   ELSE /\ tasks[k].written < MaxChunks
                        /\ \E panics \in
                                {FALSE, PartialRangeIterNextOverflows(tasks[k].iter)} :
                              IF panics
                              THEN /\ pc' = "panicked"
                                   /\ tasks' = [tasks EXCEPT ![k].body = body]
                                   /\ requests' = requests
                              ELSE /\ pc' = pc
                                   /\ tasks' = [tasks EXCEPT
                                                   ![k].st = "get",
                                                   ![k].written = tasks[k].written + 1,
                                                   ![k].body = body,
                                                   ![k].iter = next.iter,
                                                   ![k].from = next.from,
                                                   ![k].to = next.to,
                                                   ![k].retry_counter = 1]
                                   /\ requests' = [requests EXCEPT ![k] = 1]
                        /\ UNCHANGED <<failed_downs, completed, blocked, faults_left>>
    /\ UNCHANGED <<fixedVars, download_list, files, pulled, loopVars>>

\* The sleep after a successful transfer ends and the future completes
EndCooldown(k) ==
    /\ pc = "pass"
    /\ blocked = k
    /\ tasks[k].st = "cooldown"
    /\ blocked' = 0
    /\ tasks' = [tasks EXCEPT ![k].st = "ok"]
    /\ UNCHANGED <<fixedVars, pc, download_list, files, pulled, failed_downs,
                   completed, requests, loopVars, faults_left>>

\* fs::remove_file(item_to_delete).await? for each failed path in turn: the
\* disk after the removals, or the failure of one of them
RECURSIVE RemoveFailed(_, _)
RemoveFailed(failed, disk) ==
    IF failed = <<>> THEN Ok(disk)
    ELSE IF Head(failed).path \notin disk THEN [tag |-> "Err", val |-> disk]
    ELSE RemoveFailed(Tail(failed), disk \ {Head(failed).path})

\* A bug: the candidates of the pass are all kept for the next pass
FailedItemsKeepsAll(failed) == download_list

\* download_list = failed_downs.into_iter().map(|(item, _, _)| item).collect()
FailedItems(failed) == [i \in 1..Len(failed) |-> failed[i].item]

\* download_items returns the failure list when every future has completed;
\* main deletes the failed files, makes the failed items the next candidate
\* list and ends the loop on an empty failure list or after MaxLoops passes
EndPass ==
    /\ pc = "pass"
    /\ blocked = 0
    /\ pulled = Len(download_list)
    /\ InFlight = {}
    /\ LET removed == RemoveFailed(failed_downs, files)
           has_failed_downs == failed_downs = <<>>
       IN  IF IsErr(removed)
           THEN /\ pc' = "aborted"
                /\ files' = removed.val
                /\ UNCHANGED <<download_list, loopVars>>
           ELSE /\ files' = removed.val
                /\ download_list' = FailedItems(failed_downs)
                /\ loops' = loops + 1
                /\ cleared' = (cleared \/ has_failed_downs)
                /\ passes' = passes
                /\ IF LoopEnds(has_failed_downs, loops + 1)
                   THEN /\ pc' = "finished"
                        /\ report' = IF ~has_failed_downs
                                     THEN "Download failed"
                                     ELSE "Full Download Successfully Completed"
                   ELSE /\ pc' = "retry"
                        /\ report' = report
    /\ UNCHANGED <<fixedVars, passVars, faults_left>>

NextDownload ==
    \/ RunQuery
    \/ BeginPass
    \/ StartItem
    \/ \E k \in Candidates : ProbeDone(k)
    \/ \E k \in Candidates : FileCreated(k)
    \/ \E k \in Candidates : Response(k)
    \/ \E k \in Candidates : EndBackoff(k)
    \/ \E k \in Candidates : CopyDone(k)
    \/ \E k \in Candidates : EndCooldown(k)
    \/ EndPass

----------------------------------------------------------------------------
(* Runs of the download command *)

\* Items of a feed: two titled ones and one without a title
DownloadItems ==
    {Item(Some(<<"a">>), Some(<<"x">>), "audio/mpeg"),
     Item(Some(<<"b">>), Some(<<"x">>), "audio/ogg"),
     Item(None, Some(<<"x">>), "audio/mpeg")}

DownloadFeeds == UNION {[1..k -> DownloadItems] : k \in 1..MaxCands}

\* "latest:N" selects every item of a feed of up to N + 1 items
DownloadQueries == {LatestText(MaxCands), NotExistsText}

InitRun ==
    /\ setA = {} /\ setB = {}
    /\ query_ops = <<>>
    /\ NoPath
    /\ InitCommon

\* Runs on feeds of up to MaxCands items, with up to MaxFaults failures
InitDownload ==
    /\ input \in DownloadQueries
    /\ full_download_list \in DownloadFeeds
    /\ config \in {DumpConfig(OutputDir, n, DefaultTimeout) : n \in 0..MaxN}
    /\ files \in DiskStates
    /\ faults_left = MaxFaults
    /\ InitRun

SpecDownload == InitDownload /\ [][NextDownload]_vars

\* Runs with the default --ndownloads 1 on feeds of MaxCands items, titled
\* "a" or untitled (so that some share a destination path), with up to
\* MaxFaults failures
InitSerial ==
    /\ input = LatestText(MaxCands)
    /\ full_download_list \in
          [1..MaxCands -> {item \in DownloadItems : item.mime_type = "audio/mpeg"}]
    /\ config = DumpConfig(OutputDir, 1, DefaultTimeout)
    /\ files = {}
    /\ faults_left = MaxFaults
    /\ InitRun

SpecSerial == InitSerial /\ [][NextDownload]_vars

\* Values of --timeout: the default and another one
Timeouts == {DefaultTimeout, 500}

\* Runs on a feed of one item, with no bound on the failures
InitItem ==
    /\ input = LatestPrefix
    /\ full_download_list \in [1..1 -> DownloadItems]
    /\ config \in {DumpConfig(OutputDir, 1, t) : t \in Timeouts}
    /\ files = {}
    /\ faults_left = -1
    /\ InitRun

SpecItem == InitItem /\ [][NextDownload]_vars

----------------------------------------------------------------------------
(* main from its start: the feed is read before the query is compiled *)

\* main: "Access feed".  With --url the feed is fetched with
\* reqwest::get(rss_feed), with --file it is opened; Channel::read_from parses
\* it.  Each of them may fail, and main returns the error.
AccessFeed ==
    /\ pc = "args"
    /\ feed_fetched' = (rss_feed = "url")
    /\ \E read \in BOOLEAN : pc' = IF read THEN "start" ELSE "no_feed"
    /\ UNCHANGED <<queryVars, full_download_list, download_list, setVars,
                   pathVars, config, files, passVars, loopVars, faults_left,
                   rss_feed, iterVars>>

\* Query strings of a run: "number:" and a short text, a key that is no
\* query option, and "notexists"
MainQueries ==
    {NumberPrefix \o t : t \in Texts(MaxArg)} \cup {<<"x">>, NotExistsText}

InitMain ==
    /\ pc = "args"
    /\ rss_feed \in {"url", "file"}
    /\ feed_fetched = FALSE
    /\ input \in MainQueries
    /\ full_download_list \in [1..1 -> DownloadItems]
    /\ setA = {} /\ setB = {}
    /\ query_ops = <<>>
    /\ NoPath /\ NoDisk /\ NoQuery /\ NoIter

NextMain ==
    \/ AccessFeed
    \/ RunQuery

SpecMain == InitMain /\ [][NextMain]_vars

----------------------------------------------------------------------------
(* PartialRangeIter::new(0, length - 1, buffer_size) and the calls of next() *)
(* of a for loop over it                                                     *)

\* Small lengths with small buffers (0 included), and the lengths of one to
\* MaxChunks chunks and the largest length with the buffer of the downloader
IterArgs ==
    ((1..MaxLength) \X (0..MaxBuffer))
    \cup (((Lengths \ {0}) \cup {U64Modulus - 1}) \X {CHUNK_SIZE})

InitIter ==
    /\ iter_args \in IterArgs
    /\ range_iter = <<>>
    /\ yielded = <<>>
    /\ input = <<>>
    /\ full_download_list = <<>>
    /\ setA = {} /\ setB = {}
    /\ query_ops = <<>>
    /\ pc = "start"
    /\ NoPath /\ NoDisk /\ NoQuery /\ NoFetch

\* PartialRangeIter::new(0, length - 1, buffer_size)?
CallNew ==
    /\ pc = "start"
    /\ range_iter' = PartialRangeIterNew(0, iter_args[1] - 1, iter_args[2])
    /\ pc' = IF IsOk(range_iter') THEN "iter" ELSE "done"
    /\ UNCHANGED <<queryVars, full_download_list, download_list, setVars,
                   pathVars, config, files, passVars, loopVars, faults_left,
                   feedVars, iter_args, yielded>>

\* One call of next(): the loop body runs with the range, or the loop ends.
\* A build with overflow checks panics where the arithmetic overflows.
CallNext ==
    /\ pc = "iter"
    /\ IF PartialRangeIterDone(range_iter.val)
       THEN /\ pc' = "done"
            /\ UNCHANGED <<range_iter, yielded>>
       ELSE LET next == PartialRangeIterNext(range_iter.val)
            IN  \E panics \in {FALSE, PartialRangeIterNextOverflows(range_iter.val)} :
                   IF panics
                   THEN /\ pc' = "panicked"
                        /\ UNCHANGED <<range_iter, yielded>>
                   ELSE /\ pc' = pc
                        /\ range_iter' = Ok(next.iter)
                        /\ yielded' = Append(yielded, [from |-> next.from,
                                                       to |-> next.to,
                                                       chunk |-> next.chunk])
    /\ UNCHANGED <<queryVars, full_download_list, download_list, setVars,
                   pathVars, config, files, passVars, loopVars, faults_left,
                   feedVars, iter_args>>

NextIter ==
    \/ CallNew
    \/ CallNext

SpecIter == InitIter /\ [][NextIter]_vars

----------------------------------------------------------------------------
(* Properties of the set merge (SpecSet) *)

\* The parsed option is a number set
ParsedSet == pc = "done" /\ IsOk(result) /\ result.val.ros.kind = "Set"

Contents == result.val.ros.contents

\* C1: after the merge of parse_set, the set matches a value v if and only
\* if at least one element, as written in the query, matches v.
C1_MergedSetMatchesWrittenElements ==
    ParsedSet =>
        \A v \in 0..(MaxVal + 1) :
            NumberMatches(result.val.ros, v)
            <=> \E i \in 1..Len(numbers) : RangeMatches(numbers[i], v)

IndexPermutations(n) ==
    {p \in [1..n -> 1..n] : \A i, j \in 1..n : p[i] = p[j] => i = j}

Permuted(l, p) == [i \in 1..Len(l) |-> l[p[i]]]

\* C2: every permutation of the elements of a set query parses to a set with
\* the same contents.
C2_MergeIndependentOfOrder ==
    ParsedSet =>
        \A p \in IndexPermutations(Len(numbers)) :
            LET other == QueryNew(NumberPrefix \o FormatSet(Permuted(numbers, p)))
            IN  IsOk(other) /\ other.val.ros.contents = Contents

\* x lies within the inclusive bounds of the range outer
Inside(x, outer) ==
    /\ x.start >= outer.start
    /\ (IF IsSome(x.end) THEN End(x) ELSE x.start) <= End(outer)

\* C3: a set query made of one range and elements contained in it, in any
\* order, parses to the set whose only member is that range.
C3_ContainedElementsLeaveOuterRange ==
    ParsedSet =>
        \A k \in 1..Len(numbers) :
            (/\ IsSome(numbers[k].end)
             /\ \A i \in 1..Len(numbers) : Inside(numbers[i], numbers[k]))
            => Contents = {numbers[k]}

\* The handled shapes that hold of a pair of ranges
ShapesOf(r1, r2) ==
    {sh \in {"range2_contains_range1", "range2_partially_contains_range1",
             "range1_contains_range2", "range1_partially_contains_range2",
             "dont_overlap"} :
        \/ sh = "range2_contains_range1" /\ Range2ContainsRange1(r1, r2)
        \/ sh = "range2_partially_contains_range1"
           /\ Range2PartiallyContainsRange1(r1, r2)
        \/ sh = "range1_contains_range2" /\ Range1ContainsRange2(r1, r2)
        \/ sh = "range1_partially_contains_range2"
           /\ Range1PartiallyContainsRange2(r1, r2)
        \/ sh = "dont_overlap" /\ RangesDontOverlap(r1, r2)}

\* The pairs of distinct ranges the merge loop visits
RangePairs ==
    {pr \in (1..Len(numbers)) \X (1..Len(numbers)) :
        /\ pr[1] < pr[2]
        /\ IsSome(numbers[pr[1]].end) /\ IsSome(numbers[pr[2]].end)
        /\ numbers[pr[1]] # numbers[pr[2]]}

\* C4: for every pair of distinct ranges the merge loop visits, exactly one
\* of the five handled shapes holds and it is the branch taken, so the
\* unimplemented branch is never taken and parse_set does not panic; a pair
\* of disjoint ranges adds nothing to eviction_ids or update_ids.
C4_ExactlyOneShapePerPair ==
    pc = "done" =>
        /\ result.tag # "Panic"
        /\ \A pr \in RangePairs :
              LET r1 == numbers[pr[1]]
                  r2 == numbers[pr[2]]
              IN  /\ ShapesOf(r1, r2) = {PairBranch(r1, r2)}
                  /\ RangesDontOverlap(r1, r2) =>
                        /\ PairEvictions(numbers, pr[1], pr[2]) = {}
                        /\ PairUpdates(numbers, pr[1], pr[2]) = <<>>

\* A run whose merge loop met a disjoint pair and an overlapping pair
C4_Witness ==
    /\ pc = "done"
    /\ \E pr \in RangePairs : RangesDontOverlap(numbers[pr[1]], numbers[pr[2]])
    /\ \E pr \in RangePairs :
          Range1PartiallyContainsRange2(numbers[pr[1]], numbers[pr[2]])
          /\ numbers[pr[1]].start = End(numbers[pr[2]])

----------------------------------------------------------------------------
(* Properties of Set equality (SpecEq) *)

\* C5: A == B holds if and only if A and B have the same contents, and so
\* A == B implies B == A.
C5_EqualIffSameContents ==
    pc = "done" => /\ eqAB <=> (setA = setB)
                   /\ eqAB => eqBA

----------------------------------------------------------------------------
(* Properties of parse_range (SpecRange, SpecText) *)

NumberErr(e) == Err([variant |-> "Number", inner |-> e])

NumberOk(ros) == Ok(Option("Number", ros))

\* C6: "[a:b]" parses to Range{start: a, end: Some(b)} when a < b, fails
\* with EndEqualToStart{a, b} when a = b and with EndLessThanStart{a, b} when
\* a > b; a bare "a" parses to Range{start: a, end: None}.
C6_BracketedRangeByOrder ==
    pc = "done" =>
        /\ \A a, b \in 0..MaxNum :
              input = NumberPrefix \o BracketText(a, b) =>
                 result =
                    IF a < b THEN NumberOk(RangeOf(Range(a, Some(b))))
                    ELSE IF a = b
                    THEN NumberErr(ErrBounds("EndEqualToStart", a, b))
                    ELSE NumberErr(ErrBounds("EndLessThanStart", a, b))
        /\ \A a \in 0..MaxNum :
              input = NumberPrefix \o FormatU64(a) =>
                 result = NumberOk(RangeOf(Range(a, None)))

\* "[10:10]" was parsed and refused
C6_Witness ==
    /\ pc = "done"
    /\ input = NumberPrefix \o BracketText(10, 10)
    /\ IsErr(result)
    /\ result.err.inner.kind = "EndEqualToStart"

\* The text Parser::parse works on after "number:"
QueryText == Trim(SliceFrom(input, 7))

Bracketed(t) == StartsWith(t, "[") /\ EndsWith(t, "]")

\* What stands between the first and the last character
Inner(t) == SubSeq(t, 2, Len(t) - 1)

Blank(t) == \A i \in 1..Len(t) : t[i] = " "

FirstDelimiter(t) ==
    CHOOSE k \in 1..Len(t) :
        t[k] = RANGE_DELIMITER /\ \A m \in 1..(k - 1) : t[m] # RANGE_DELIMITER

BeforeDelimiter(t) == SubSeq(t, 1, FirstDelimiter(t) - 1)

AfterDelimiter(t) == SubSeq(t, FirstDelimiter(t) + 1, Len(t))

IsNumberText(t) ==
    Trim(t) # <<>> /\ \A i \in 1..Len(Trim(t)) : IsDigit(Trim(t)[i])

\* C8: a text that opens with '[' and does not close with ']', or closes
\* with ']' and does not open with '[', is refused with Unfinished whatever
\* else it contains; a bracketed text with no delimiter with
\* MissingRangeDelimiter; a bracketed text with nothing before its delimiter
\* with MissingStart; a bracketed text with a number before its delimiter
\* and nothing after it with MissingEnd; each error carries the text.
C8_MalformedRangeErrors ==
    pc = "done" =>
        LET t == QueryText
        IN  /\ ((StartsWith(t, "[") /\ ~EndsWith(t, "]"))
                \/ (~StartsWith(t, "[") /\ EndsWith(t, "]")))
               => result = NumberErr(ErrText("Unfinished", t))
            /\ (Bracketed(t) /\ ~Contains(Inner(t), RANGE_DELIMITER))
               => result = NumberErr(ErrText("MissingRangeDelimiter", t))
            /\ (/\ Bracketed(t) /\ Contains(Inner(t), RANGE_DELIMITER)
                /\ Blank(BeforeDelimiter(Inner(t))))
               => result = NumberErr(ErrText("MissingStart", t))
            /\ (/\ Bracketed(t) /\ Contains(Inner(t), RANGE_DELIMITER)
                /\ IsNumberText(BeforeDelimiter(Inner(t)))
                /\ Blank(AfterDelimiter(Inner(t))))
               => result = NumberErr(ErrText("MissingEnd", t))

\* "1:]" has two defects, a missing opening bracket and an empty end, and
\* was refused as Unfinished
C8_Witness ==
    /\ pc = "done"
    /\ QueryText = <<"1", ":", "]">>
    /\ result = NumberErr(ErrText("Unfinished", QueryText))

\* C9: a set text with a brace between its outermost braces is refused with
\* the Recursion error, never parsed to a Set.
C9_NestedSetRejected ==
    pc = "done" =>
        LET t == QueryText
        IN  (IsSetText(t)
             /\ (Contains(Inner(t), "{") \/ Contains(Inner(t), "}")))
            => result = NumberErr(ErrText("Recursion", t))

----------------------------------------------------------------------------
(* Properties of the constructed ranges and of latest (SpecLatest) *)

RangesOf(ros) == IF ros.kind = "Range" THEN {ros.range} ELSE ros.contents

\* C7: every Range of a successfully constructed number query with an end
\* has end > start.
C7_EndAfterStart ==
    (pc = "done" /\ IsOk(result)) =>
        \A r \in RangesOf(result.val.ros) : IsSome(r.end) => End(r) > r.start

\* The places of the first k items of the master list
FirstPlaces(k) ==
    [i \in 1..(IF k < Len(full_download_list) THEN k
               ELSE Len(full_download_list)) |-> i]

C11_LatestSelectsNItems ==
    pc = "done" =>
        \A n \in 1..MaxLatest :
            (input = LatestText(n) /\ Len(full_download_list) >= n)
            => (IsOk(result) /\ download_list = FirstPlaces(n))

----------------------------------------------------------------------------
(* Properties of create_file_path (SpecPath) *)

\* The extension the specification gives for a MIME type
ExtensionFor(mime) ==
    CASE mime = "audio/mpeg" -> <<"m", "p", "3">>
      [] mime = "audio/aac" -> <<"a", "a", "c">>
      [] mime = "audio/ogg" -> <<"o", "g", "g">>
      [] mime = "audio/mp4" -> <<"m", "p", "4">>
      [] mime = "audio/x-m4a" -> <<"m", "4", "a">>

\* C14: for every title and recognized MIME type create_file_path returns
\* <output-dir>/<sanitized-title>.<ext>: the whole title with every '/'
\* replaced by '-' and nothing else changed or removed, also when the title
\* contains '.', and the extension of the MIME type.
C14_PathIsOutputTitleExtension ==
    (pc = "done" /\ mime_type \in MimeTypes) =>
        new_file = config.output \o <<"/">> \o ReplaceSlash(title)
                   \o <<".">> \o ExtensionFor(mime_type)

----------------------------------------------------------------------------
(* Properties of notexists (SpecDownload) *)

\* The places of the master list whose destination holds no file
RECURSIVE PlacesWithoutFile(_)
PlacesWithoutFile(i) ==
    IF i > Len(full_download_list) THEN <<>>
    ELSE (IF DestinationOf(full_download_list[i], config.output) \in files
          THEN <<>> ELSE <<i>>) \o PlacesWithoutFile(i + 1)

\* C12: notexists is true of an item if and only if no file exists, when it
\* is evaluated, at the path download_items would use for the item; so an
\* item whose download has completed is not selected by notexists afterwards.
C12_NotExistsIffNoFileAtDestination ==
    /\ (input = NotExistsText /\ pc \in {"done", "panicked"} /\ passes = 0) =>
          (pc = "done" /\ download_list = PlacesWithoutFile(1))
    /\ (passes > 0 /\ pc # "panicked") =>
          \A p \in completed :
              /\ ~EvalPanics(NotExistsOp, full_download_list[p])
              /\ ~EvalOp(NotExistsOp, full_download_list[p], p - 1)

----------------------------------------------------------------------------
(* Properties of build_list_from_query (SpecFilter) *)

\* Every predicate of query_ops is true of the item at place p
MatchesAll(p) ==
    \A q \in 1..Len(query_ops) :
        EvalOp(query_ops[q], full_download_list[p], p - 1)

----------------------------------------------------------------------------
(* Properties of a pass of download_items (SpecDownload) *)

\* C15: for every configured n_downloads and every candidate list, the
\* number of candidates whose transfer is in progress at the same time never
\* exceeds n_downloads.
C15_TransfersWithinNDownloads ==
    pc = "pass" => Cardinality(Transferring) <= config.n_downloads

\* The entries of the failure list that name the candidate k
FailuresOf(k) ==
    {i \in 1..Len(failed_downs) : failed_downs[i].item = download_list[k]}

\* download_items is about to return: every future has completed
PassReturns ==
    /\ pc = "pass"
    /\ pulled = Len(download_list)
    /\ InFlight = {}

\* C18: a failure while one candidate is transferred (length probe, file
\* creation, network, bad status after the retries, write) never keeps the
\* pass from attempting the others: the pass returns, and when it does every
\* candidate has either completed, and is not in the failure list, or is in
\* the failure list exactly once.
C18_FailuresStayWithTheirItem ==
    /\ (passes > 0 /\ pulled < Len(download_list)) => pc # "panicked"
    /\ (passes > 0 /\ InFlight # {}) => pc # "panicked"
    /\ PassReturns =>
          \A k \in Candidates :
              \/ download_list[k] \in completed /\ FailuresOf(k) = {}
              \/ download_list[k] \notin completed
                 /\ Cardinality(FailuresOf(k)) = 1

\* C20: while one candidate waits in its retry backoff, every other
\* candidate in flight can take its next step: receive the answer to its
\* probe or to its request, have its file created, write its chunk.
C20_BackoffSuspendsOneItemOnly ==
    pc = "pass" =>
        \A k \in Candidates :
            (/\ tasks[k].st \in {"probe", "create", "get", "copy"}
             /\ \E other \in Candidates \ {k} : tasks[other].st = "backoff")
            => ENABLED (\/ ProbeDone(k)
                        \/ FileCreated(k)
                        \/ Response(k)
                        \/ CopyDone(k))

----------------------------------------------------------------------------
(* Properties of the chunk retries (SpecItem) *)

\* The failure the step has just pushed
LastFailure == failed_downs'[Len(failed_downs')]

\* C16: a chunk that is answered fewer than 20 times with a status other
\* than 200 and 206, and then with 200 or 206, is written and the item goes
\* on to the next chunk or completes; after the 20th such answer in a row the
\* item fails with an error that carries the last status; a chunk is never
\* requested more than 20 times, and the count restarts at every chunk.  The
\* next chunk of an enclosure that is not empty starts one byte after it.
C16_ChunkRetriedUpToTries ==
    [][(pc = "pass" /\ pc' = "pass") =>
          \A k \in Candidates :
              /\ requests'[k] <= 20
              /\ (tasks[k].st = "backoff" /\ tasks'[k].st = "get") =>
                    /\ requests[k] < 20
                    /\ requests'[k] = requests[k] + 1
                    /\ tasks'[k].from = tasks[k].from
              /\ (tasks[k].st = "backoff" /\ tasks'[k].st = "failed") =>
                    /\ requests[k] = 20
                    /\ LastFailure.item = download_list[k]
                    /\ LastFailure.error =
                          TransferError("status", tasks[k].status)
                    /\ tasks[k].status \in BadStatuses
              /\ (tasks[k].st = "get" /\ tasks'[k].st = "failed") =>
                    LastFailure.error.kind # "status"
              /\ (tasks[k].st = "copy" /\ tasks'[k].st = "get") =>
                    /\ tasks'[k].written = tasks[k].written + 1
                    /\ tasks[k].length >= 1 => tasks'[k].from = tasks[k].to + 1
                    /\ requests'[k] = 1
                    /\ tasks'[k].retry_counter = 1
              /\ (tasks[k].st = "copy" /\ tasks'[k].st = "cooldown") =>
                    /\ tasks'[k].written = tasks[k].written + 1
                    /\ tasks[k].to = tasks[k].length - 1
                    /\ download_list[k] \in completed']_vars

\* The second chunk of an item is being written after 19 bad statuses and a
\* good one, the first chunk having also been requested more than once
C16_Witness ==
    /\ pc = "pass"
    /\ \E k \in Candidates :
          /\ tasks[k].st = "copy"
          /\ tasks[k].from > 0
          /\ requests[k] = 20
          /\ tasks[k].written = 1

\* C19: a ranged GET that fails to be sent or answered is retried like a bad
\* status, and the item fails only after the attempt cap.
C19_NetworkFailureRetriedToCap ==
    pc = "pass" =>
        \A i \in 1..Len(failed_downs) :
            failed_downs[i].error.kind = "network"
            => requests[failed_downs[i].candidate] = 20

----------------------------------------------------------------------------
(* Properties of the retry loop of main (SpecItem) *)

\* C17: the loop calls download_items at most 10 times whatever fails, makes
\* no call after the first pass that returns an empty failure list, and
\* prints the success message exactly when it ended on an empty failure list.
C17_LoopStopsOnSuccessOrTenPasses ==
    /\ passes <= 10
    /\ cleared => (pc = "finished" /\ failed_downs = <<>>)
    /\ pc = "finished" =>
          /\ report \in {"Download failed", "Full Download Successfully Completed"}
          /\ report = "Full Download Successfully Completed"
                <=> failed_downs = <<>>
          /\ failed_downs # <<>> => passes = 10
    /\ pc # "finished" => report = ""

\* The tenth pass failed and the loop ended with "Download failed"
C17_Witness ==
    /\ pc = "finished"
    /\ passes = 10
    /\ failed_downs # <<>>
    /\ report = "Download failed"

----------------------------------------------------------------------------
(* Properties of main from its start (SpecMain) *)

\* C21: in a run whose query string Query::new rejects, the feed is never
\* fetched over HTTP: the error is returned before any request is sent.
C21_QueryErrorBeforeNetwork ==
    IsErr(QueryNew(input)) => ~feed_fetched

----------------------------------------------------------------------------
(* Properties of the retry loop over several candidates (SpecSerial) *)

Places(list) == {list[i] : i \in 1..Len(list)}

\* The candidate list main built from the query
OriginalList == BuildListFromQuery(full_download_list, <<result.val>>)

\* C22: when main goes from a pass to the next one (or ends the loop), no
\* file is left at the destination path of a failed candidate, and the new
\* candidate list holds exactly the items that failed in the pass, each
\* once: none of the items that completed, and only items of the list of
\* the pass.  download_items is called with that list, and in the first pass
\* with the list the query selected, so the lists of the passes only shrink:
\* a completed item is in no later list, and no list has an item the query
\* did not select.
C22_NextPassRetriesExactlyFailures ==
    [][/\ (pc = "pass" /\ pc' \in {"retry", "finished"}) =>
            /\ \A i \in 1..Len(failed_downs) : failed_downs[i].path \notin files'
            /\ Places(download_list') = {failed_downs[i].item : i \in 1..Len(failed_downs)}
            /\ Len(download_list') = Cardinality(Places(download_list'))
            /\ Places(download_list') \cap completed = {}
            /\ Places(download_list') \subseteq Places(download_list)
       /\ (pc = "start" /\ pc' = "done" /\ IsOk(result')) =>
            download_list' = OriginalList'
       /\ (pc \in {"done", "retry"} /\ pc' = "pass") =>
            /\ download_list' = download_list
            /\ Len(tasks') = Len(download_list)
       /\ pc = "pass" /\ pc' = "pass" => download_list' = download_list]_vars

\* A pass of two candidates has ended with one completed and one failed, and
\* the next pass is about to start with the failed one
C22_Witness ==
    /\ pc = "retry"
    /\ completed # {}
    /\ Len(failed_downs) = 1
    /\ download_list = <<failed_downs[1].item>>
    /\ failed_downs[1].path \notin files

----------------------------------------------------------------------------
(* Properties of the waits between the retries of a chunk (SpecItem) *)

\* Candidates that sleep after a bad status
Waiting == {k \in Candidates : pc = "pass" /\ tasks[k].st = "backoff"}

\* C23: the wait after a bad status is a multiple of the configured
\* --timeout, from once to tries times that value.
C23_WaitIsMultipleOfTimeout ==
    \A k \in Waiting :
        \E n \in 1..tries : tasks[k].sleep_ms = n * config.timeout

\* C24: after the k-th bad status in a row for a chunk (k GETs of the chunk
\* have been sent), the task waits k * 300 ms, the delay its message
\* announces, and it does not wait when that was the last try.
C24_WaitIsLinearAndAnnounced ==
    \A k \in Waiting :
        /\ tasks[k].sleep_ms = requests[k] * 300
        /\ tasks[k].sleep_ms = tasks[k].announced_ms
        /\ requests[k] < tries

----------------------------------------------------------------------------
(* Properties of PartialRangeIter (SpecIter) *)

\* C25: for a length of 1 or more, a buffer size of 0 is refused and no
\* range is yielded; for a buffer size of 1 or more the ranges yielded so
\* far start at byte 0, each starts one byte after the end of the one before
\* and covers min(buffer size, bytes left) bytes, no call panics, and when
\* the loop has ended there are ceil(length / buffer size) ranges and the
\* last one ends at byte length - 1.
C25_RangesPartitionTheLength ==
    LET length == iter_args[1]
        buffer_size == iter_args[2]
        n == Len(yielded)
    IN  /\ pc # "panicked"
        /\ pc # "start" /\ buffer_size = 0 =>
               pc = "done" /\ IsErr(range_iter) /\ n = 0
        /\ pc # "start" /\ buffer_size >= 1 =>
               /\ IsOk(range_iter)
               /\ n >= 1 => yielded[1].from = 0
               /\ \A i \in 1..n :
                     /\ i > 1 => yielded[i].from = yielded[i - 1].to + 1
                     /\ yielded[i].to - yielded[i].from + 1
                            = IF buffer_size < length - yielded[i].from
                              THEN buffer_size
                              ELSE length - yielded[i].from
                     /\ yielded[i].to <= length - 1
               /\ pc = "done" =>
                     /\ n = (length + buffer_size - 1) \div buffer_size
                     /\ yielded[n].to = length - 1

\* The loop over a length that the buffer size does not divide has ended
\* after several ranges
C25_Witness ==
    /\ pc = "done"
    /\ IsOk(range_iter)
    /\ Len(yielded) >= 2
    /\ iter_args[1] % iter_args[2] # 0
    /\ yielded[Len(yielded)].to = iter_args[1] - 1

----------------------------------------------------------------------------
(* Properties of the order of the requests of one item (SpecItem) *)

\* A ranged GET of the item has been sent and its chunk is not yet in the file
ChunkPending(task) == task.st \in {"get", "backoff", "copy"}

\* C26: a GET of an item is sent only while its destination file exists,
\* the first one in the step that created the file, for the range that
\* starts at byte 0 and with nothing written; the GET of a further range is
\* sent in the step in which the copy of the body of the range before it
\* has ended, and that range starts one byte after it.  While the n-th
\* range of an enclosure that is not empty is requested or copied, the file
\* holds the n - 1 bodies before it, in the order of the requests.
C26_ChunksInSequenceAfterCreate ==
    [][\A k \in DOMAIN tasks' :
          LET new == tasks'[k]
          IN  /\ ChunkPending(new) => new.new_file \in files'
              /\ ChunkPending(new) /\ new.length >= 1 =>
                    /\ Len(new.body) = new.written
                    /\ new.from = new.written * CHUNK_SIZE
              /\ (k \in DOMAIN tasks /\ new.st = "get" /\ tasks[k].st # "get") =>
                    /\ tasks[k].st \in {"create", "backoff", "copy"}
                    /\ tasks[k].st = "create" =>
                          new.from = 0 /\ new.body = <<>> /\ new.written = 0
                    /\ tasks[k].st = "backoff" =>
                          /\ new.from = tasks[k].from /\ new.to = tasks[k].to
                          /\ new.body = tasks[k].body
                    /\ tasks[k].st = "copy" =>
                          /\ new.written = tasks[k].written + 1
                          /\ new.length >= 1 =>
                                /\ new.from = tasks[k].to + 1
                                /\ Len(new.body) = Len(tasks[k].body) + 1]_vars

\* The second range of an item is requested with the body of the first one
\* in the file
C26_Witness ==
    /\ pc = "pass"
    /\ \E k \in DOMAIN tasks :
          /\ tasks[k].st = "get"
          /\ tasks[k].written = 1
          /\ Len(tasks[k].body) = 1
          /\ tasks[k].from = CHUNK_SIZE
          /\ tasks[k].new_file \in files

----------------------------------------------------------------------------
(* Properties of the cleanup of failed downloads (SpecItem) *)

\* C27: main does not return an error from the cleanup of a pass because no
\* file exists at the destination path of a failed candidate: it skips that
\* path and goes on with the loop.
C27_CleanupSkipsMissingFile ==
    ~(/\ pc = "aborted"
      /\ \E i \in 1..Len(failed_downs) : failed_downs[i].path \notin files)

----------------------------------------------------------------------------
(* Properties of the file of a transferred item (SpecItem) *)

\* download_and_store_item has returned Ok for the candidate
Stored(k) == tasks[k].st \in {"cooldown", "ok"}

\* C28: when the transfer of an item of probed length L has returned Ok, the
\* file holds the bytes 0..L-1 once and in order: the bodies written start at
\* byte 0, each starts one byte after the one before, and the last one ends
\* at byte L - 1, whether the answers were 200 or 206.
C28_StoredFileIsTheEnclosure ==
    \A k \in DOMAIN tasks :
        Stored(k) =>
            LET body == tasks[k].body
                length == tasks[k].length
            IN  IF length = 0 THEN body = <<>>
                ELSE /\ Len(body) >= 1
                     /\ body[1].from = 0
                     /\ \A i \in 2..Len(body) : body[i].from = body[i - 1].to + 1
                     /\ body[Len(body)].to = length - 1

\* C30: for an enclosure of probed length 0, no arithmetic of the transfer
\* overflows and no ranged GET is sent: the file is created and the transfer
\* returns Ok with nothing written.
C30_EmptyEnclosureCompletes ==
    \A k \in DOMAIN tasks :
        (tasks[k].st \notin {"waiting", "probe"} /\ tasks[k].length = 0) =>
            /\ requests[k] = 0
            /\ tasks[k].body = <<>>
            /\ tasks[k].st \in {"create", "failed", "cooldown", "ok"}
            /\ pc # "panicked"

----------------------------------------------------------------------------
(* Properties of the destination paths of a pass (SpecDownload) *)

\* C29: the candidates of a pass have destination paths that differ from
\* one another, so that no two transfers write one file and the removal of a
\* failed candidate's file leaves the files of the completed ones.
C29_DestinationsDiffer ==
    pc = "pass" =>
        /\ \A k, l \in Candidates :
              k # l => DestinationOf(ItemOf(k), config.output)
                          # DestinationOf(ItemOf(l), config.output)
        /\ \A k, l \in DOMAIN tasks :
              (k # l /\ ChunkPending(tasks[k]) /\ ChunkPending(tasks[l])) =>
                  tasks[k].new_file # tasks[l].new_file

====
